---- MODULE Spec2Model ----
(***************************************************************************)
(* Model of the realtime relay: the websocket handler of src/main.py (the  *)
(* Streaming Relay), the DatabaseManager of src/database.py (the Session   *)
(* Ledger) and SessionProcessor.process_session of                         *)
(* src/session_processor.py (the Post-Session Processor).                  *)
(*                                                                         *)
(* Init is the state after the lifespan start-up: the service handles      *)
(* (db_manager, session_processor, openai_client) exist and no connection  *)
(* is open.  The record store, the two providers and the websocket         *)
(* transport are the environment: every call to them either succeeds or    *)
(* fails, the failure being an input of the step (at most MaxFaults        *)
(* failures are injected in one run).                                      *)
(*                                                                         *)
(* Scheduling is asyncio's: one event loop, a task keeps it until it       *)
(* reaches an await that suspends (websocket accept/send/receive and       *)
(* asyncio.sleep).  The DatabaseManager coroutines and the provider        *)
(* clients are synchronous inside, so they never give the loop away.       *)
(***************************************************************************)
EXTENDS Integers, Sequences, FiniteSets, TLC

\* ------------------------------------------------------------------ bounds
MaxTurns == 1        \* user_message turns handled in one run, over all connections
MaxChunks == 2       \* chunks one provider stream yields
MaxFaults == 2       \* failures the environment injects in a run of one connection
MaxIgnored == 1      \* inbound messages of another type received in one run
MaxEvents == 3       \* rows of session_events in a run of the ledger alone
MaxTime == 2         \* the clock reads 0..MaxTime ticks
MaxSeconds == 7325   \* the longest session whose duration is formatted
TicksPerSecond == 2  \* resolution of the clock

Conns == {"c1", "c2"}
SessionIds == {"s1", "s2"}
\* The path parameter of a connection.  The ids are interchangeable, so the first
\* connection is given s1; the second may reuse it or bring a new one.
SessionIdsOf(c) == IF c = "c1" THEN {"s1"} ELSE SessionIds
Tokens == {"a", "b"}

\* ------------------------------------------------------------ optionals
\* Python's None / a present value; also the store's response.data list.
None == <<>>
Some(x) == <<x>>

\* ------------------------------------------------------------- literals
Placeholder == "No conversation data available for this session."
ErrorSummary == "Error generating summary: provider error"
ProviderSummary == "provider summary text"
NonString == <<"#not-a-string">>
UserTexts == {<<"hi">>, <<"Weather", "now">>}

Lower(w) == IF w = "Weather" THEN "weather" ELSE w
\* "weather" in user_text.lower(), over a text given as its words
MentionsWeather(text) == \E i \in 1..Len(text) : Lower(text[i]) = "weather"

\* user_id = f"user_{session_id[-6:]}"; the ids used here are shorter than six
UserId(s) == <<"user_", s>>

\* execute_tool("get_weather", {"location": "Bangalore"})
execute_tool(tool_name) ==
    IF tool_name = "get_weather"
    THEN <<"Bangalore", "28", "celsius", "Partly Cloudy">>
    ELSE <<"error", "Unknown tool">>

\* ---------------------------------------------------------------- state
VARIABLES
    sessions,   \* table "sessions": session id -> None or Some(record)
    events,     \* table "session_events": session id -> rows in insertion order
    conns,      \* the connections that are opened in this run
    relay,      \* per connection: the frame of websocket_endpoint
    proc,       \* per connection: the frame of the process_session task it launched
    loop,       \* the task holding the event loop, or Idle
    now,        \* datetime.utcnow(), in whole seconds
    faults      \* failures injected so far

vars == <<sessions, events, conns, relay, proc, loop, now, faults>>

Idle == <<"idle", "idle">>
RelayTask(c) == <<"relay", c>>
ProcTask(c) == <<"proc", c>>
Runnable(t) == loop \in {Idle, t}

\* int((end_time - start_time).total_seconds()): truncation toward zero
IntTrunc(x, d) == IF x >= 0 THEN x \div d ELSE -((-x) \div d)
Duration(t0, t1) == IntTrunc(t1 - t0, TicksPerSecond)

Event(event_type, data) ==
    [event_type |-> event_type, timestamp |-> now, data |-> data]

\* -------------------------------------------------- the Session Ledger
\* Each operation takes the store's outcome `ok` of its call(s) and returns
\* whether it raised, with the tables it leaves behind.

\* The sessions table has primary key session_id: inserting an existing id fails.
DuplicateKey(s) == sessions[s] # None
\* session_events.session_id references sessions: a row needs its session, and
\* a session that still has rows cannot be deleted.
ForeignKey(s) == sessions[s] # None
Referenced(s, rows) == rows[s] # <<>>

\* Faulty variant, for sensitivity of the properties: an upsert: the insert overwrites an existing record
create_session_upsert(s, u, ok) ==
    [raised |-> ~ok,
     sessions |-> IF ok
                  THEN [sessions EXCEPT ![s] =
                          Some([session_id |-> s, user_id |-> u, start_time |-> now,
                                end_time |-> None, duration_seconds |-> None,
                                summary |-> None, status |-> "active"])]
                  ELSE sessions]

create_session(s, u, ok) ==
    LET session_data == [session_id |-> s, user_id |-> u, start_time |-> now,
                         end_time |-> None, duration_seconds |-> None,
                         summary |-> None, status |-> "active"]
        inserted == ok /\ ~DuplicateKey(s)
    IN  [raised |-> ~inserted,
         sessions |-> IF inserted THEN [sessions EXCEPT ![s] = Some(session_data)]
                      ELSE sessions]

\* Faulty variant, for sensitivity of the properties: the update leaves the status out
end_session_keeps_status(s, ok) ==
    LET data == sessions[s]
        found == ok /\ data # None
    IN  [raised |-> ~found,
         sessions |-> IF found
                      THEN [sessions EXCEPT ![s] =
                              Some([data[1] EXCEPT !.end_time = Some(now),
                                        !.duration_seconds =
                                            Some(Duration(data[1].start_time, now))])]
                      ELSE sessions]

end_session(s, ok) ==
    LET data == sessions[s]
        found == ok /\ data # None
        update_data == [end_time |-> Some(now),
                        duration_seconds |-> Some(Duration(data[1].start_time, now)),
                        status |-> "completed"]
    IN  [raised |-> ~found,
         sessions |-> IF found
                      THEN [sessions EXCEPT ![s] =
                              Some([data[1] EXCEPT !.end_time = update_data.end_time,
                                        !.duration_seconds = update_data.duration_seconds,
                                        !.status = update_data.status])]
                      ELSE sessions]

\* Faulty variant, for sensitivity of the properties: a failed update is caught and an empty result returned
update_session_summary_swallows(s, summary, ok) ==
    LET data == sessions[s]
    IN  [raised |-> FALSE,
         sessions |-> IF ok /\ data # None
                      THEN [sessions EXCEPT ![s] =
                              Some([data[1] EXCEPT !.summary = Some(summary),
                                                   !.status = "summarized"])]
                      ELSE sessions]

update_session_summary(s, summary, ok) ==
    LET data == sessions[s]
    IN  [raised |-> ~ok,
         sessions |-> IF ok /\ data # None
                      THEN [sessions EXCEPT ![s] =
                              Some([data[1] EXCEPT !.summary = Some(summary),
                                                   !.status = "summarized"])]
                      ELSE sessions]

\* Faulty variant, for sensitivity of the properties: the except block re-raises, as the other writers do
log_event_raises(s, event_type, data, ok) ==
    [raised |-> ~ok,
     events |-> IF ok /\ ForeignKey(s) THEN [events EXCEPT ![s] = Append(@, Event(event_type, data))]
                ELSE events]

log_event(s, event_type, data, ok) ==
    [raised |-> FALSE,
     events |-> IF ok /\ ForeignKey(s)
                THEN [events EXCEPT ![s] = Append(@, Event(event_type, data))]
                ELSE events]

\* order("timestamp", desc=False): a stable insertion sort of the selected rows
RECURSIVE InsertByTimestamp(_, _)
InsertByTimestamp(sorted, e) ==
    IF sorted = <<>> THEN <<e>>
    ELSE IF sorted[Len(sorted)].timestamp <= e.timestamp THEN Append(sorted, e)
    ELSE Append(InsertByTimestamp(SubSeq(sorted, 1, Len(sorted) - 1), e),
                sorted[Len(sorted)])

RECURSIVE SortByTimestamp(_)
SortByTimestamp(rows) ==
    IF rows = <<>> THEN <<>>
    ELSE InsertByTimestamp(SortByTimestamp(SubSeq(rows, 1, Len(rows) - 1)),
                           rows[Len(rows)])

AllEventTypes == {}   \* event_types=None: no filter

get_session_events(s, event_types, ok) ==
    IF ok
    THEN SortByTimestamp(SelectSeq(events[s],
             LAMBDA e : event_types = AllEventTypes \/ e.event_type \in event_types))
    ELSE <<>>

get_session(s, ok) == IF ok THEN sessions[s] ELSE None

Count(rows, event_type) ==
    Cardinality({i \in 1..Len(rows) : rows[i].event_type = event_type})

\* Faulty variant, for sensitivity of the properties: function calls are left out of the total
get_session_statistics_drops_calls(s, ok) ==
    LET evs == get_session_events(s, AllEventTypes, ok)
        types == {evs[i].event_type : i \in 1..Len(evs)}
    IN  [total_events |-> Len(evs) - Count(evs, "function_call"),
         user_messages |-> Count(evs, "user_message"),
         assistant_responses |-> Count(evs, "assistant_response"),
         function_calls |-> Count(evs, "function_call"),
         event_types |-> [ty \in types |-> Count(evs, ty)]]

\* get_session_events swallows a failed query, so the scan then sees no event
get_session_statistics(s, ok) ==
    LET evs == get_session_events(s, AllEventTypes, ok)
        types == {evs[i].event_type : i \in 1..Len(evs)}
    IN  [total_events |-> Len(evs),
         user_messages |-> Count(evs, "user_message"),
         assistant_responses |-> Count(evs, "assistant_response"),
         function_calls |-> Count(evs, "function_call"),
         event_types |-> [ty \in types |-> Count(evs, ty)]]

\* Faulty variant, for sensitivity of the properties: the rows come back as stored, not ordered
get_conversation_history_unordered(s, ok) ==
    LET evs == IF ok
               THEN SelectSeq(events[s], LAMBDA e :
                        e.event_type \in {"user_message", "assistant_response"})
               ELSE <<>>
    IN  [i \in 1..Len(evs) |->
            [role |-> IF evs[i].event_type = "user_message" THEN "user" ELSE "assistant",
             content |-> evs[i].data,
             timestamp |-> evs[i].timestamp]]

get_conversation_history(s, ok) ==
    LET evs == get_session_events(s, {"user_message", "assistant_response"}, ok)
    IN  [i \in 1..Len(evs) |->
            [role |-> IF evs[i].event_type = "user_message" THEN "user" ELSE "assistant",
             content |-> evs[i].data,
             timestamp |-> evs[i].timestamp]]

\* delete_session: the events are deleted, then the record; "mid" is the store
\* between the two calls.  Any exception is caught and False returned.
\* Faulty variant, for sensitivity of the properties: the record is deleted first
delete_session_record_first(s, ok1, ok2) ==
    LET record_deleted == ok1 /\ ~Referenced(s, events)
        mid == [events |-> events,
                sessions |-> IF record_deleted THEN [sessions EXCEPT ![s] = None]
                             ELSE sessions]
        events_deleted == record_deleted /\ ok2
    IN  [result |-> events_deleted,
         mid |-> mid,
         events |-> IF events_deleted THEN [events EXCEPT ![s] = <<>>] ELSE mid.events,
         sessions |-> mid.sessions]

delete_session(s, ok1, ok2) ==
    LET mid == [events |-> IF ok1 THEN [events EXCEPT ![s] = <<>>] ELSE events,
                sessions |-> sessions]
        record_deleted == ok1 /\ ok2 /\ ~Referenced(s, mid.events)
    IN  [result |-> record_deleted,
         mid |-> mid,
         events |-> mid.events,
         sessions |-> IF record_deleted THEN [sessions EXCEPT ![s] = None]
                      ELSE sessions]

\* ---------------------------------------------------------------- Init
InitRelay ==
    [pc |-> "idle", session_id |-> "none", user_id |-> <<>>,
     conversation_history |-> <<>>, user_text |-> <<>>, messages |-> <<>>,
     full_response |-> <<>>, token |-> "", raised |-> FALSE,
     frames |-> <<>>, calls |-> <<>>, turns |-> 0, chunks |-> 0,
     turn_frames |-> 0, turn_calls |-> 0]

InitProc ==
    [pc |-> "none", session_id |-> "none", session |-> None,
     conversation |-> <<>>, duration_str |-> None, summary |-> None, stats |-> None,
     calls |-> <<>>]

\* A run opens one connection, or two that run concurrently.
Init ==
    /\ conns \in {{"c1"}, Conns}
    /\ sessions = [s \in SessionIds |-> None]
    /\ events = [s \in SessionIds |-> <<>>]
    /\ relay = [c \in Conns |-> InitRelay]
    /\ proc = [c \in Conns |-> InitProc]
    /\ loop = Idle
    /\ now = 0
    /\ faults = 0

\* ------------------------------------------------------------- helpers
RECURSIVE SumTurns(_)
SumTurns(cs) ==
    IF cs = {} THEN 0
    ELSE LET c == CHOOSE x \in cs : TRUE IN relay[c].turns + SumTurns(cs \ {c})
TotalTurns == SumTurns(Conns)

\* the inbound messages of another type received so far, over all connections
RECURSIVE SumIgnored(_)
SumIgnored(cs) ==
    IF cs = {} THEN 0
    ELSE LET c == CHOOSE x \in cs : TRUE
         IN  Cardinality({i \in DOMAIN relay[c].calls :
                            relay[c].calls[i].op = "receive_text:ignored"})
             + SumIgnored(cs \ {c})
TotalIgnored == SumIgnored(Conns)

\* The environment's outcome of one call: success, or one more injected failure.
\* A run of two connections is given one failure fewer than a run of one.
\* A dialogue run (its counter starts above MaxFaults) is given one failure and
\* one more turn.
Dialogue == faults > MaxFaults
FaultLimit == IF Dialogue THEN MaxFaults + 2 ELSE MaxFaults - (Cardinality(conns) - 1)
TurnLimit == IF Dialogue THEN MaxTurns + 1 ELSE MaxTurns
\* Likewise for the inbound messages of another type.
IgnoreLimit == MaxIgnored - (Cardinality(conns) - 1)

Outcome(ok) ==
    /\ ok \/ faults < FaultLimit
    /\ faults' = IF ok THEN faults ELSE faults + 1
    /\ UNCHANGED conns

\* The call history of a task: what was called and how it came back: "ok",
\* "raised" (the exception reached the caller) or "swallowed" (the failure was
\* caught inside the callee, which returned its empty result).
Call(op, result) == [op |-> op, result |-> result]
Result(raised, ok) == IF raised THEN "raised" ELSE IF ok THEN "ok" ELSE "swallowed"

Frame(type, content) == [type |-> type, content |-> content]

\* What a websocket send does: "ok", or raises WebSocketDisconnect ("disconnect")
\* or another exception ("error").
SendOutcomes == {"ok", "disconnect", "error"}

\* Where an exception raised inside the try block of websocket_endpoint lands.
Handler(kind) == IF kind = "disconnect" THEN "finally" ELSE "except"

\* ------------------------------------------------- the Streaming Relay
\* One action per step of websocket_endpoint.  Steps that end at a suspending
\* await release the event loop; the others keep it.

Accept(c, s) ==
    /\ relay[c].pc = "idle"
    /\ Runnable(RelayTask(c))
    /\ relay' = [relay EXCEPT ![c] =
          [@ EXCEPT !.pc = "create_session", !.session_id = s,
                    !.user_id = UserId(s), !.conversation_history = <<>>]]
    /\ loop' = RelayTask(c)
    /\ UNCHANGED <<sessions, events, conns, proc, now, faults>>

\* line 118, outside the try block: a failure leaves the handler at once
CreateSession(c) ==
    /\ relay[c].pc = "create_session"
    /\ Runnable(RelayTask(c))
    /\ \E ok \in BOOLEAN :
        LET r == create_session(relay[c].session_id, relay[c].user_id, ok) IN
        /\ Outcome(ok)
        /\ sessions' = r.sessions
        /\ relay' = [relay EXCEPT ![c] =
              [@ EXCEPT !.pc = IF r.raised THEN "failed" ELSE "log_session_start",
                        !.calls = Append(@, Call("create_session", Result(r.raised, ok)))]]
        /\ loop' = IF r.raised THEN Idle ELSE RelayTask(c)
    /\ UNCHANGED <<events, proc, now>>

\* line 119
LogSessionStart(c) ==
    /\ relay[c].pc = "log_session_start"
    /\ Runnable(RelayTask(c))
    /\ \E ok \in BOOLEAN :
        LET r == log_event(relay[c].session_id, "session_start", relay[c].user_id, ok) IN
        /\ Outcome(ok)
        /\ events' = r.events
        /\ relay' = [relay EXCEPT ![c] =
              [@ EXCEPT !.pc = IF r.raised THEN "failed" ELSE "send_session_start",
                        !.calls = Append(@, Call("log_event:session_start", Result(r.raised, ok)))]]
        /\ loop' = IF r.raised THEN Idle ELSE RelayTask(c)
    /\ UNCHANGED <<sessions, proc, now>>

\* lines 121-125, still outside the try block
SendSessionStart(c) ==
    /\ relay[c].pc = "send_session_start"
    /\ Runnable(RelayTask(c))
    /\ \E out \in SendOutcomes :
        /\ Outcome(out = "ok")
        /\ relay' = [relay EXCEPT ![c] =
              [@ EXCEPT !.pc = IF out = "ok" THEN "receive" ELSE "failed",
                        !.frames = IF out = "ok"
                                   THEN Append(@, Frame("session_start", <<relay[c].session_id>>))
                                   ELSE @,
                        !.calls = Append(@, Call("send_json:session_start", Result(out # "ok", TRUE)))]]
    /\ loop' = Idle
    /\ UNCHANGED <<sessions, events, proc, now>>

\* What the client sends: raw text, parsed by json.loads and read by msg["type"]
\* and msg["content"].
Inbound ==
    {[json |-> TRUE, type |-> Some("user_message"), content |-> Some(t)] : t \in UserTexts}
    \cup {[json |-> TRUE, type |-> Some("user_message"), content |-> Some(NonString)],
          [json |-> TRUE, type |-> Some("user_message"), content |-> None],
          [json |-> TRUE, type |-> Some("ping"), content |-> None],
          [json |-> TRUE, type |-> None, content |-> None],
          [json |-> FALSE, type |-> None, content |-> None]}

\* json.loads(raw), msg["type"], msg["content"]: each raises on what is missing
Malformed(msg) ==
    \/ ~msg.json
    \/ msg.type = None
    \/ msg.type = Some("user_message") /\ msg.content = None

\* Faulty variant, for sensitivity of the properties: a message of another type is treated as an error
ReceiveTextRejectsUnknown(c, msg) ==
    /\ relay[c].pc = "receive"
    /\ Runnable(RelayTask(c))
    /\ IF Malformed(msg)
       THEN /\ relay' = [relay EXCEPT ![c] =
                  [@ EXCEPT !.pc = "except",
                            !.calls = Append(@, Call("receive_text:malformed", "raised"))]]
            /\ loop' = RelayTask(c)
       ELSE IF msg.type # Some("user_message")
       THEN /\ TotalIgnored < IgnoreLimit
            /\ relay' = [relay EXCEPT ![c] =
                  [@ EXCEPT !.pc = "except",
                            !.calls = Append(@, Call("receive_text:ignored", "ok"))]]
            /\ loop' = RelayTask(c)
       ELSE /\ TotalTurns < TurnLimit
            /\ relay' = [relay EXCEPT ![c] =
                  [@ EXCEPT !.pc = "log_user_message",
                            !.user_text = msg.content[1],
                            !.turns = @ + 1, !.chunks = 0,
                            !.turn_frames = Len(relay[c].frames),
                            !.turn_calls = Len(relay[c].calls),
                            !.calls = Append(@, Call("receive_text:user_message", "ok"))]]
            /\ loop' = RelayTask(c)
    /\ UNCHANGED <<sessions, events, conns, proc, now, faults>>

\* Faulty variant, for sensitivity of the properties: the socket is also read while a stream is open
ReceiveTextWhileStreaming(c, msg) ==
    /\ relay[c].pc \in {"receive", "next_chunk"}
    /\ Runnable(RelayTask(c))
    /\ IF Malformed(msg)
       THEN /\ relay' = [relay EXCEPT ![c] =
                  [@ EXCEPT !.pc = "except",
                            !.calls = Append(@, Call("receive_text:malformed", "raised"))]]
            /\ loop' = RelayTask(c)
       ELSE IF msg.type # Some("user_message")
       THEN /\ TotalIgnored < IgnoreLimit
            /\ relay' = [relay EXCEPT ![c] =       \* continue
                  [@ EXCEPT !.calls = Append(@, Call("receive_text:ignored", "ok"))]]
            /\ loop' = Idle
       ELSE /\ TotalTurns < TurnLimit
            /\ relay' = [relay EXCEPT ![c] =
                  [@ EXCEPT !.pc = "log_user_message",
                            !.user_text = msg.content[1],
                            !.turns = @ + 1, !.chunks = 0,
                            !.turn_frames = Len(relay[c].frames),
                            !.turn_calls = Len(relay[c].calls),
                            !.calls = Append(@, Call("receive_text:user_message", "ok"))]]
            /\ loop' = RelayTask(c)
    /\ UNCHANGED <<sessions, events, conns, proc, now, faults>>

\* lines 129-135: one inbound message is received and dispatched
ReceiveText(c, msg) ==
    /\ relay[c].pc = "receive"
    /\ Runnable(RelayTask(c))
    /\ IF Malformed(msg)
       THEN /\ relay' = [relay EXCEPT ![c] =
                  [@ EXCEPT !.pc = "except",
                            !.calls = Append(@, Call("receive_text:malformed", "raised"))]]
            /\ loop' = RelayTask(c)
       ELSE IF msg.type # Some("user_message")
       THEN /\ TotalIgnored < IgnoreLimit
            /\ relay' = [relay EXCEPT ![c] =       \* continue
                  [@ EXCEPT !.calls = Append(@, Call("receive_text:ignored", "ok"))]]
            /\ loop' = Idle
       ELSE /\ TotalTurns < TurnLimit
            /\ relay' = [relay EXCEPT ![c] =
                  [@ EXCEPT !.pc = "log_user_message",
                            !.user_text = msg.content[1],
                            !.turns = @ + 1, !.chunks = 0,
                            !.turn_frames = Len(relay[c].frames),
                            !.turn_calls = Len(relay[c].calls),
                            !.calls = Append(@, Call("receive_text:user_message", "ok"))]]
            /\ loop' = RelayTask(c)
    /\ UNCHANGED <<sessions, events, conns, proc, now, faults>>

\* receive_text raises WebSocketDisconnect: the client has closed the connection
ClientDisconnect(c) ==
    /\ relay[c].pc = "receive"
    /\ Runnable(RelayTask(c))
    /\ relay' = [relay EXCEPT ![c] =
          [@ EXCEPT !.pc = "finally",
                    !.calls = Append(@, Call("receive_text:disconnect", "raised"))]]
    /\ loop' = RelayTask(c)
    /\ UNCHANGED <<sessions, events, conns, proc, now, faults>>

\* receive_text raises another exception: a transport error
ReceiveError(c) ==
    /\ relay[c].pc = "receive"
    /\ Runnable(RelayTask(c))
    /\ Outcome(FALSE)
    /\ relay' = [relay EXCEPT ![c] =
          [@ EXCEPT !.pc = "except",
                    !.calls = Append(@, Call("receive_text:error", "raised"))]]
    /\ loop' = RelayTask(c)
    /\ UNCHANGED <<sessions, events, proc, now>>

\* lines 137-152: log the user message, append it to the buffer, tool detection
LogUserMessage(c) ==
    /\ relay[c].pc = "log_user_message"
    /\ Runnable(RelayTask(c))
    /\ \E ok \in BOOLEAN :
        LET text == relay[c].user_text
            r == log_event(relay[c].session_id, "user_message", text, ok)
            appended == Append(relay[c].conversation_history,
                               [role |-> "user", content |-> text])
        IN
        /\ Outcome(ok)
        /\ events' = r.events
        /\ relay' = [relay EXCEPT ![c] =
              [@ EXCEPT
                 !.pc = IF r.raised \/ text = NonString THEN "except"   \* .lower() raises
                        ELSE IF MentionsWeather(text) THEN "send_function_result"
                        ELSE "create_stream",
                 !.conversation_history = IF r.raised THEN @ ELSE appended,
                 !.calls = Append(@, Call("log_event:user_message", Result(r.raised, ok)))]]
    /\ loop' = RelayTask(c)
    /\ UNCHANGED <<sessions, proc, now>>

\* lines 150-163: the function_result frame, then the system entry
SendFunctionResult(c) ==
    /\ relay[c].pc = "send_function_result"
    /\ Runnable(RelayTask(c))
    /\ \E out \in SendOutcomes :
        LET tool_result == execute_tool("get_weather") IN
        /\ Outcome(out = "ok")
        /\ relay' = [relay EXCEPT ![c] =
              [@ EXCEPT
                 !.pc = IF out = "ok" THEN "create_stream" ELSE Handler(out),
                 !.frames = IF out = "ok"
                            THEN Append(@, Frame("function_result", <<"get_weather">>))
                            ELSE @,
                 !.conversation_history =
                     IF out = "ok"
                     THEN Append(@, [role |-> "system",
                                     content |-> <<"Weather data:">> \o tool_result])
                     ELSE @,
                 !.calls = Append(@, Call("send_json:function_result", Result(out # "ok", TRUE)))]]
    /\ loop' = Idle
    /\ UNCHANGED <<sessions, events, proc, now>>

\* Faulty variant, for sensitivity of the properties: the provider is given the newest entry only
CreateStreamLastEntryOnly(c) ==
    /\ relay[c].pc = "create_stream"
    /\ Runnable(RelayTask(c))
    /\ \E ok \in BOOLEAN :
        /\ Outcome(ok)
        /\ relay' = [relay EXCEPT ![c] =
              [@ EXCEPT !.pc = IF ok THEN "next_chunk" ELSE "except",
                        !.messages = <<relay[c].conversation_history[
                                          Len(relay[c].conversation_history)]>>,
                        !.full_response = IF ok THEN <<>> ELSE @,
                        !.calls = Append(@, Call("create_stream", Result(~ok, TRUE)))]]
    /\ loop' = RelayTask(c)
    /\ UNCHANGED <<sessions, events, proc, now>>

\* lines 168-174: the completion provider is called with the whole buffer
CreateStream(c) ==
    /\ relay[c].pc = "create_stream"
    /\ Runnable(RelayTask(c))
    /\ \E ok \in BOOLEAN :
        /\ Outcome(ok)
        /\ relay' = [relay EXCEPT ![c] =
              [@ EXCEPT !.pc = IF ok THEN "next_chunk" ELSE "except",
                        !.messages = relay[c].conversation_history,
                        !.full_response = IF ok THEN <<>> ELSE @,
                        !.calls = Append(@, Call("create_stream", Result(~ok, TRUE)))]]
    /\ loop' = RelayTask(c)
    /\ UNCHANGED <<sessions, events, proc, now>>

\* lines 176-179: the stream yields a chunk with a token
ChunkToken(c, tok) ==
    /\ relay[c].pc = "next_chunk"
    /\ Runnable(RelayTask(c))
    /\ relay[c].chunks < MaxChunks
    /\ relay' = [relay EXCEPT ![c] =
          [@ EXCEPT !.pc = "send_token", !.token = tok,
                    !.full_response = Append(@, tok), !.chunks = @ + 1]]
    /\ loop' = RelayTask(c)
    /\ UNCHANGED <<sessions, events, conns, proc, now, faults>>

\* line 177: a chunk without choices or without content is skipped
ChunkEmpty(c) ==
    /\ relay[c].pc = "next_chunk"
    /\ Runnable(RelayTask(c))
    /\ relay[c].chunks < MaxChunks
    /\ relay' = [relay EXCEPT ![c] = [@ EXCEPT !.chunks = @ + 1]]
    /\ loop' = RelayTask(c)
    /\ UNCHANGED <<sessions, events, conns, proc, now, faults>>

\* line 176: the stream is exhausted
StreamEnd(c) ==
    /\ relay[c].pc = "next_chunk"
    /\ Runnable(RelayTask(c))
    /\ relay' = [relay EXCEPT ![c] =
          [@ EXCEPT !.pc = "send_response_complete",
                    !.calls = Append(@, Call("stream:exhausted", "ok"))]]
    /\ loop' = RelayTask(c)
    /\ UNCHANGED <<sessions, events, conns, proc, now, faults>>

\* Faulty variant, for sensitivity of the properties: a provider failure is taken for the end of the stream
StreamErrorCompletes(c) ==
    /\ relay[c].pc = "next_chunk"
    /\ Runnable(RelayTask(c))
    /\ Outcome(FALSE)
    /\ relay' = [relay EXCEPT ![c] =
          [@ EXCEPT !.pc = "send_response_complete",
                    !.calls = Append(@, Call("stream:error", "raised"))]]
    /\ loop' = RelayTask(c)
    /\ UNCHANGED <<sessions, events, proc, now>>

\* line 176: the provider fails while the stream is read
StreamError(c) ==
    /\ relay[c].pc = "next_chunk"
    /\ Runnable(RelayTask(c))
    /\ Outcome(FALSE)
    /\ relay' = [relay EXCEPT ![c] =
          [@ EXCEPT !.pc = "except",
                    !.calls = Append(@, Call("stream:error", "raised"))]]
    /\ loop' = RelayTask(c)
    /\ UNCHANGED <<sessions, events, proc, now>>

\* Faulty variant, for sensitivity of the properties: a token that could not be sent is passed over
SendTokenIgnoresFailure(c) ==
    /\ relay[c].pc = "send_token"
    /\ Runnable(RelayTask(c))
    /\ \E out \in SendOutcomes :
        /\ Outcome(out = "ok")
        /\ relay' = [relay EXCEPT ![c] =
              [@ EXCEPT !.pc = "next_chunk",
                        !.frames = IF out = "ok"
                                   THEN Append(@, Frame("token", <<relay[c].token>>))
                                   ELSE @,
                        !.calls = Append(@, Call("send_json:token", Result(FALSE, out = "ok")))]]
    /\ loop' = Idle
    /\ UNCHANGED <<sessions, events, proc, now>>

\* lines 181-184
SendToken(c) ==
    /\ relay[c].pc = "send_token"
    /\ Runnable(RelayTask(c))
    /\ \E out \in SendOutcomes :
        /\ Outcome(out = "ok")
        /\ relay' = [relay EXCEPT ![c] =
              [@ EXCEPT !.pc = IF out = "ok" THEN "next_chunk" ELSE Handler(out),
                        !.frames = IF out = "ok"
                                   THEN Append(@, Frame("token", <<relay[c].token>>))
                                   ELSE @,
                        !.calls = Append(@, Call("send_json:token", Result(out # "ok", TRUE)))]]
    /\ loop' = Idle
    /\ UNCHANGED <<sessions, events, proc, now>>

\* line 186
SendResponseComplete(c) ==
    /\ relay[c].pc = "send_response_complete"
    /\ Runnable(RelayTask(c))
    /\ \E out \in SendOutcomes :
        /\ Outcome(out = "ok")
        /\ relay' = [relay EXCEPT ![c] =
              [@ EXCEPT !.pc = IF out = "ok" THEN "log_assistant_response" ELSE Handler(out),
                        !.frames = IF out = "ok"
                                   THEN Append(@, Frame("response_complete", <<>>))
                                   ELSE @,
                        !.calls = Append(@, Call("send_json:response_complete", Result(out # "ok", TRUE)))]]
    /\ loop' = Idle
    /\ UNCHANGED <<sessions, events, proc, now>>

\* lines 188-197: the response joins the buffer and is logged
LogAssistantResponse(c) ==
    /\ relay[c].pc = "log_assistant_response"
    /\ Runnable(RelayTask(c))
    /\ \E ok \in BOOLEAN :
        LET r == log_event(relay[c].session_id, "assistant_response",
                           relay[c].full_response, ok) IN
        /\ Outcome(ok)
        /\ events' = r.events
        /\ relay' = [relay EXCEPT ![c] =
              [@ EXCEPT !.pc = IF r.raised THEN "except" ELSE "receive",
                        !.conversation_history =
                            Append(@, [role |-> "assistant",
                                       content |-> relay[c].full_response]),
                        !.calls = Append(@, Call("log_event:assistant_response", Result(r.raised, ok)))]]
        /\ loop' = IF r.raised THEN RelayTask(c) ELSE Idle
    /\ UNCHANGED <<sessions, proc, now>>

\* lines 202-206: the error frame; a send that fails here raises out of the
\* except block, through the finally block
SendError(c) ==
    /\ relay[c].pc = "except"
    /\ Runnable(RelayTask(c))
    /\ \E out \in SendOutcomes :
        /\ Outcome(out = "ok")
        /\ relay' = [relay EXCEPT ![c] =
              [@ EXCEPT !.pc = "finally",
                        !.raised = (out # "ok"),
                        !.frames = IF out = "ok" THEN Append(@, Frame("error", <<"message">>))
                                   ELSE @,
                        !.calls = Append(@, Call("send_json:error", Result(out # "ok", TRUE)))]]
    /\ loop' = Idle
    /\ UNCHANGED <<sessions, events, proc, now>>

\* line 209: a failure replaces whatever was being raised and skips the rest
EndSession(c) ==
    /\ relay[c].pc = "finally"
    /\ Runnable(RelayTask(c))
    /\ \E ok \in BOOLEAN :
        LET r == end_session(relay[c].session_id, ok) IN
        /\ Outcome(ok)
        /\ sessions' = r.sessions
        /\ relay' = [relay EXCEPT ![c] =
              [@ EXCEPT !.pc = IF r.raised THEN "failed" ELSE "log_session_end",
                        !.calls = Append(@, Call("end_session", Result(r.raised, ok)))]]
        /\ loop' = IF r.raised THEN Idle ELSE RelayTask(c)
    /\ UNCHANGED <<events, proc, now>>

\* line 210
LogSessionEnd(c) ==
    /\ relay[c].pc = "log_session_end"
    /\ Runnable(RelayTask(c))
    /\ \E ok \in BOOLEAN :
        LET r == log_event(relay[c].session_id, "session_end", <<>>, ok) IN
        /\ Outcome(ok)
        /\ events' = r.events
        /\ relay' = [relay EXCEPT ![c] =
              [@ EXCEPT !.pc = IF r.raised THEN "failed" ELSE "create_task",
                        !.calls = Append(@, Call("log_event:session_end", Result(r.raised, ok)))]]
        /\ loop' = IF r.raised THEN Idle ELSE RelayTask(c)
    /\ UNCHANGED <<sessions, proc, now>>

\* Faulty variant, for sensitivity of the properties: the coroutine is created but never scheduled
CreateTaskNotScheduled(c) ==
    /\ relay[c].pc = "create_task"
    /\ Runnable(RelayTask(c))
    /\ relay' = [relay EXCEPT ![c] =
          [@ EXCEPT !.pc = IF relay[c].raised THEN "failed" ELSE "closed",
                    !.calls = Append(@, Call("create_task", "ok"))]]
    /\ loop' = Idle
    /\ UNCHANGED <<sessions, events, conns, proc, now, faults>>

\* line 211: the processor is launched detached; the handler then returns, or
\* lets the exception of the except block go
CreateTask(c) ==
    /\ relay[c].pc = "create_task"
    /\ Runnable(RelayTask(c))
    /\ relay' = [relay EXCEPT ![c] =
          [@ EXCEPT !.pc = IF relay[c].raised THEN "failed" ELSE "closed",
                    !.calls = Append(@, Call("create_task", "ok"))]]
    /\ proc' = [proc EXCEPT ![c] =
          [@ EXCEPT !.pc = "sleep", !.session_id = relay[c].session_id]]
    /\ loop' = Idle
    /\ UNCHANGED <<sessions, events, conns, now, faults>>

RelayStep(c) ==
    \/ \E s \in SessionIdsOf(c) : Accept(c, s)
    \/ CreateSession(c) \/ LogSessionStart(c) \/ SendSessionStart(c)
    \/ \E msg \in Inbound : ReceiveText(c, msg)
    \/ ClientDisconnect(c) \/ ReceiveError(c)
    \/ LogUserMessage(c) \/ SendFunctionResult(c) \/ CreateStream(c)
    \/ \E tok \in Tokens : ChunkToken(c, tok)
    \/ ChunkEmpty(c) \/ StreamEnd(c) \/ StreamError(c)
    \/ SendToken(c) \/ SendResponseComplete(c) \/ LogAssistantResponse(c)
    \/ SendError(c) \/ EndSession(c) \/ LogSessionEnd(c) \/ CreateTask(c)


\* --------------------------------------------- the Post-Session Processor
\* generate_summary: the prompt is built (the duration is formatted, which
\* raises on a missing duration), the provider is called once; any exception
\* becomes the error text.
PromptFails(session) == session.duration_seconds = None

\* f"{n}": the decimal digits of an integer
DigitChars == <<"0", "1", "2", "3", "4", "5", "6", "7", "8", "9">>
RECURSIVE Digits(_)
Digits(n) ==
    IF n < 10 THEN <<DigitChars[n + 1]>>
    ELSE Append(Digits(n \div 10), DigitChars[(n % 10) + 1])
Str(n) == IF n < 0 THEN <<"-">> \o Digits(-n) ELSE Digits(n)

\* Faulty variant, for sensitivity of the properties: the minutes of the hours branch are not reduced
_format_duration_total_minutes(seconds) ==
    IF seconds < 60 THEN Str(seconds) \o <<" seconds">>
    ELSE IF seconds < 3600
    THEN LET minutes == seconds \div 60
             secs == seconds % 60
         IN  Str(minutes) \o <<" minutes, ">> \o Str(secs) \o <<" seconds">>
    ELSE LET hours == seconds \div 3600
             minutes == seconds \div 60
         IN  Str(hours) \o <<" hours, ">> \o Str(minutes) \o <<" minutes">>

\* the formatted text, as the sequence of its digits and literal parts
_format_duration(seconds) ==
    IF seconds < 60 THEN Str(seconds) \o <<" seconds">>
    ELSE IF seconds < 3600
    THEN LET minutes == seconds \div 60
             secs == seconds % 60
         IN  Str(minutes) \o <<" minutes, ">> \o Str(secs) \o <<" seconds">>
    ELSE LET hours == seconds \div 3600
             minutes == (seconds % 3600) \div 60
         IN  Str(hours) \o <<" hours, ">> \o Str(minutes) \o <<" minutes">>

generate_summary(conversation, session, ok) ==
    IF PromptFails(session) \/ ~ok THEN ErrorSummary ELSE ProviderSummary

\* lines 29-33: the task starts and sleeps through the grace period
Sleep(c) ==
    /\ proc[c].pc = "sleep"
    /\ Runnable(ProcTask(c))
    /\ proc' = [proc EXCEPT ![c] = [@ EXCEPT !.pc = "get_session"]]
    /\ loop' = ProcTask(c)
    /\ UNCHANGED <<sessions, events, conns, relay, now, faults>>

\* Faulty variant, for sensitivity of the properties: a missing record is recorded as an error event
GetSessionLogsAbsence(c) ==
    /\ proc[c].pc = "get_session"
    /\ Runnable(ProcTask(c))
    /\ \E ok \in BOOLEAN :
        LET session == get_session(proc[c].session_id, ok) IN
        /\ Outcome(ok)
        /\ proc' = [proc EXCEPT ![c] =
              [@ EXCEPT !.pc = IF session = None THEN "log_error" ELSE "get_conversation_history",
                        !.session = session,
                        !.calls = Append(@, Call("get_session", Result(FALSE, ok)))]]
        /\ loop' = ProcTask(c)
    /\ UNCHANGED <<sessions, events, relay, now>>

\* lines 36-39
GetSession(c) ==
    /\ proc[c].pc = "get_session"
    /\ Runnable(ProcTask(c))
    /\ \E ok \in BOOLEAN :
        LET session == get_session(proc[c].session_id, ok) IN
        /\ Outcome(ok)
        /\ proc' = [proc EXCEPT ![c] =
              [@ EXCEPT !.pc = IF session = None THEN "done" ELSE "get_conversation_history",
                        !.session = session,
                        !.calls = Append(@, Call("get_session", Result(FALSE, ok)))]]
        /\ loop' = IF session = None THEN Idle ELSE ProcTask(c)
    /\ UNCHANGED <<sessions, events, relay, now>>

\* Faulty variant, for sensitivity of the properties: the empty conversation is not told apart
GetConversationHistoryNoPlaceholder(c) ==
    /\ proc[c].pc = "get_conversation_history"
    /\ Runnable(ProcTask(c))
    /\ \E ok \in BOOLEAN :
        LET conversation == get_conversation_history(proc[c].session_id, ok) IN
        /\ Outcome(ok)
        /\ proc' = [proc EXCEPT ![c] =
              [@ EXCEPT !.pc = "generate_summary",
                        !.conversation = conversation,
                        !.calls = Append(@, Call("get_conversation_history",
                                                 Result(FALSE, ok)))]]
    /\ loop' = ProcTask(c)
    /\ UNCHANGED <<sessions, events, relay, now>>

\* lines 42-46
GetConversationHistory(c) ==
    /\ proc[c].pc = "get_conversation_history"
    /\ Runnable(ProcTask(c))
    /\ \E ok \in BOOLEAN :
        LET conversation == get_conversation_history(proc[c].session_id, ok) IN
        /\ Outcome(ok)
        /\ proc' = [proc EXCEPT ![c] =
              [@ EXCEPT !.pc = IF conversation = <<>> THEN "update_session_summary"
                               ELSE "generate_summary",
                        !.conversation = conversation,
                        !.summary = IF conversation = <<>> THEN Some(Placeholder) ELSE @,
                        !.calls = Append(@, Call("get_conversation_history", Result(FALSE, ok)))]]
    /\ loop' = ProcTask(c)
    /\ UNCHANGED <<sessions, events, relay, now>>

\* Faulty variant, for sensitivity of the properties: the provider's exception is not caught
GenerateSummaryPropagates(c) ==
    /\ proc[c].pc = "generate_summary"
    /\ Runnable(ProcTask(c))
    /\ \E ok \in BOOLEAN :
        LET session == proc[c].session[1] IN
        /\ Outcome(ok \/ PromptFails(session))
        /\ ~(PromptFails(session) /\ ~ok)
        /\ proc' = [proc EXCEPT ![c] =
              [@ EXCEPT !.pc = IF ok /\ ~PromptFails(session)
                               THEN "update_session_summary" ELSE "log_error",
                        !.duration_str =
                            IF PromptFails(session) THEN @
                            ELSE Some(_format_duration(session.duration_seconds[1])),
                        !.summary = IF ok /\ ~PromptFails(session)
                                    THEN Some(ProviderSummary) ELSE @,
                        !.calls = IF PromptFails(session) THEN @
                                  ELSE Append(@, Call("anthropic_client.messages.create", Result(~ok, ok)))]]
    /\ loop' = ProcTask(c)
    /\ UNCHANGED <<sessions, events, relay, now>>

\* lines 47-49
GenerateSummary(c) ==
    /\ proc[c].pc = "generate_summary"
    /\ Runnable(ProcTask(c))
    /\ \E ok \in BOOLEAN :
        LET session == proc[c].session[1] IN
        /\ Outcome(ok \/ PromptFails(session))
        /\ ~(PromptFails(session) /\ ~ok)
        /\ proc' = [proc EXCEPT ![c] =
              [@ EXCEPT !.pc = "update_session_summary",
                        !.duration_str =
                            IF PromptFails(session) THEN @
                            ELSE Some(_format_duration(session.duration_seconds[1])),
                        !.summary = Some(generate_summary(proc[c].conversation, session, ok)),
                        !.calls = IF PromptFails(session) THEN @
                                  ELSE Append(@, Call("anthropic_client.messages.create", Result(FALSE, ok)))]]
    /\ loop' = ProcTask(c)
    /\ UNCHANGED <<sessions, events, relay, now>>

\* lines 51-52: a raise lands in the except block of line 73
UpdateSessionSummary(c) ==
    /\ proc[c].pc = "update_session_summary"
    /\ Runnable(ProcTask(c))
    /\ \E ok \in BOOLEAN :
        LET r == update_session_summary(proc[c].session_id, proc[c].summary[1], ok) IN
        /\ Outcome(ok)
        /\ sessions' = r.sessions
        /\ proc' = [proc EXCEPT ![c] =
              [@ EXCEPT !.pc = IF r.raised THEN "log_error" ELSE "get_session_statistics",
                        !.calls = Append(@, Call("update_session_summary", Result(r.raised, ok)))]]
    /\ loop' = ProcTask(c)
    /\ UNCHANGED <<events, relay, now>>

\* lines 54-55
GetSessionStatistics(c) ==
    /\ proc[c].pc = "get_session_statistics"
    /\ Runnable(ProcTask(c))
    /\ \E ok \in BOOLEAN :
        /\ Outcome(ok)
        /\ proc' = [proc EXCEPT ![c] =
              [@ EXCEPT !.pc = "log_complete",
                        !.stats = Some(get_session_statistics(proc[c].session_id, ok)),
                        !.calls = Append(@, Call("get_session_statistics", Result(FALSE, ok)))]]
    /\ loop' = ProcTask(c)
    /\ UNCHANGED <<sessions, events, relay, now>>

\* Faulty variant, for sensitivity of the properties: the report after the completion event raises
LogCompleteThenRaises(c) ==
    /\ proc[c].pc = "log_complete"
    /\ Runnable(ProcTask(c))
    /\ \E ok \in BOOLEAN :
        LET r == log_event(proc[c].session_id, "post_processing_complete",
                           <<"summary_generated">>, ok) IN
        /\ Outcome(ok)
        /\ events' = r.events
        /\ proc' = [proc EXCEPT ![c] =
              [@ EXCEPT !.pc = "log_error",
                        !.calls = Append(@, Call("log_event:post_processing_complete", Result(r.raised, ok)))]]
        /\ loop' = ProcTask(c)
    /\ UNCHANGED <<sessions, relay, now>>

\* lines 57-71
LogComplete(c) ==
    /\ proc[c].pc = "log_complete"
    /\ Runnable(ProcTask(c))
    /\ \E ok \in BOOLEAN :
        LET r == log_event(proc[c].session_id, "post_processing_complete",
                           <<"summary_generated">>, ok) IN
        /\ Outcome(ok)
        /\ events' = r.events
        /\ proc' = [proc EXCEPT ![c] =
              [@ EXCEPT !.pc = IF r.raised THEN "log_error" ELSE "done",
                        !.calls = Append(@, Call("log_event:post_processing_complete", Result(r.raised, ok)))]]
        /\ loop' = IF r.raised THEN ProcTask(c) ELSE Idle
    /\ UNCHANGED <<sessions, relay, now>>

\* Faulty variant, for sensitivity of the properties: the client of the ended session is told of the failure
LogErrorNotifiesClient(c) ==
    /\ proc[c].pc = "log_error"
    /\ Runnable(ProcTask(c))
    /\ \E ok \in BOOLEAN :
        LET r == log_event(proc[c].session_id, "post_processing_error", <<"error">>, ok) IN
        /\ Outcome(ok)
        /\ events' = r.events
        /\ proc' = [proc EXCEPT ![c] =
              [@ EXCEPT !.pc = "done",
                        !.calls = Append(@, Call("log_event:post_processing_error", Result(r.raised, ok)))]]
        /\ relay' = [relay EXCEPT ![c] =
              [@ EXCEPT !.frames = Append(@, Frame("error", <<"message">>))]]
    /\ loop' = Idle
    /\ UNCHANGED <<sessions, now>>

\* lines 73-84: the error is logged; a raise of that is passed over
LogError(c) ==
    /\ proc[c].pc = "log_error"
    /\ Runnable(ProcTask(c))
    /\ \E ok \in BOOLEAN :
        LET r == log_event(proc[c].session_id, "post_processing_error", <<"error">>, ok) IN
        /\ Outcome(ok)
        /\ events' = r.events
        /\ proc' = [proc EXCEPT ![c] =
              [@ EXCEPT !.pc = "done",
                        !.calls = Append(@, Call("log_event:post_processing_error", Result(r.raised, ok)))]]
    /\ loop' = Idle
    /\ UNCHANGED <<sessions, relay, now>>

ProcStep(c) ==
    \/ Sleep(c) \/ GetSession(c) \/ GetConversationHistory(c) \/ GenerateSummary(c)
    \/ UpdateSessionSummary(c) \/ GetSessionStatistics(c) \/ LogComplete(c) \/ LogError(c)

Next ==
    \/ \E c \in conns : \E s \in SessionIdsOf(c) : Accept(c, s)
    \/ \E c \in conns : CreateSession(c)
    \/ \E c \in conns : LogSessionStart(c)
    \/ \E c \in conns : SendSessionStart(c)
    \/ \E c \in conns : \E msg \in Inbound : ReceiveText(c, msg)
    \/ \E c \in conns : ClientDisconnect(c)
    \/ \E c \in conns : ReceiveError(c)
    \/ \E c \in conns : LogUserMessage(c)
    \/ \E c \in conns : SendFunctionResult(c)
    \/ \E c \in conns : CreateStream(c)
    \/ \E c \in conns : \E tok \in Tokens : ChunkToken(c, tok)
    \/ \E c \in conns : ChunkEmpty(c)
    \/ \E c \in conns : StreamEnd(c)
    \/ \E c \in conns : StreamError(c)
    \/ \E c \in conns : SendToken(c)
    \/ \E c \in conns : SendResponseComplete(c)
    \/ \E c \in conns : LogAssistantResponse(c)
    \/ \E c \in conns : SendError(c)
    \/ \E c \in conns : EndSession(c)
    \/ \E c \in conns : LogSessionEnd(c)
    \/ \E c \in conns : CreateTask(c)
    \/ \E c \in conns : Sleep(c)
    \/ \E c \in conns : GetSession(c)
    \/ \E c \in conns : GetConversationHistory(c)
    \/ \E c \in conns : GenerateSummary(c)
    \/ \E c \in conns : UpdateSessionSummary(c)
    \/ \E c \in conns : GetSessionStatistics(c)
    \/ \E c \in conns : LogComplete(c)
    \/ \E c \in conns : LogError(c)

Spec == Init /\ [][Next]_vars

\* ------------------------------------------------- the ledger on its own
\* The operations of DatabaseManager called by any caller, in any order, on one
\* session id, with a wall clock that may step in either direction between
\* calls.  A call that fails leaves the store as its operation leaves it.
LedgerIds == {"s1"}
LedgerEventTypes == {"user_message", "assistant_response", "function_call", "session_start"}
LedgerData(event_type) ==
    IF event_type = "user_message" THEN {<<"hi">>, <<"yo">>} ELSE {<<"ok">>}
Deleting(s) == <<"delete", s>>

LedgerInit ==
    /\ conns = {}
    /\ sessions = [s \in SessionIds |-> None]
    /\ events = [s \in SessionIds |-> <<>>]
    /\ relay = [c \in Conns |-> InitRelay]
    /\ proc = [c \in Conns |-> InitProc]
    /\ loop = Idle
    /\ now = 0
    /\ faults = 0

\* datetime.utcnow() between two calls
Tick(t) ==
    /\ loop = Idle
    /\ t # now
    /\ now' = t
    /\ UNCHANGED <<sessions, events, conns, relay, proc, loop, faults>>

LedgerCreateSession(s) ==
    /\ loop = Idle
    /\ \E ok \in BOOLEAN : sessions' = create_session(s, UserId(s), ok).sessions
    /\ UNCHANGED <<events, conns, relay, proc, loop, now, faults>>

LedgerEndSession(s) ==
    /\ loop = Idle
    /\ \E ok \in BOOLEAN : sessions' = end_session(s, ok).sessions
    /\ UNCHANGED <<events, conns, relay, proc, loop, now, faults>>

LedgerLogEvent(s, event_type) ==
    /\ loop = Idle
    /\ Len(events[s]) < MaxEvents
    /\ \E ok \in BOOLEAN, data \in LedgerData(event_type) :
          events' = log_event(s, event_type, data, ok).events
    /\ UNCHANGED <<sessions, conns, relay, proc, loop, now, faults>>

\* database.py line 297: the first delete; a failure ends the call
LedgerDeleteEvents(s) ==
    /\ loop = Idle
    /\ \E ok1 \in BOOLEAN :
        LET d == delete_session(s, ok1, TRUE) IN
        /\ events' = d.mid.events
        /\ sessions' = d.mid.sessions
        /\ loop' = IF ok1 THEN Deleting(s) ELSE Idle
    /\ UNCHANGED <<conns, relay, proc, now, faults>>

\* database.py line 300: the second delete, with no await since the first
LedgerDeleteRecord(s) ==
    /\ loop = Deleting(s)
    /\ \E ok2 \in BOOLEAN :
        LET d == delete_session(s, TRUE, ok2) IN
        /\ events' = d.events
        /\ sessions' = d.sessions
    /\ loop' = Idle
    /\ UNCHANGED <<conns, relay, proc, now, faults>>

LedgerNext ==
    \/ \E t \in 0..MaxTime : Tick(t)
    \/ \E s \in LedgerIds : LedgerCreateSession(s)
    \/ \E s \in LedgerIds : LedgerEndSession(s)
    \/ \E s \in LedgerIds : \E event_type \in LedgerEventTypes : LedgerLogEvent(s, event_type)
    \/ \E s \in LedgerIds : LedgerDeleteEvents(s)
    \/ \E s \in LedgerIds : LedgerDeleteRecord(s)

LedgerSpec == LedgerInit /\ [][LedgerNext]_vars

\* ------------------------------------------------------ a longer dialogue
\* One connection that may hold a second turn, with at most one failure
\* injected: the runs in which the buffer and the log carry an earlier turn.
DialogueInit ==
    /\ conns = {"c1"}
    /\ sessions = [s \in SessionIds |-> None]
    /\ events = [s \in SessionIds |-> <<>>]
    /\ relay = [c \in Conns |-> InitRelay]
    /\ proc = [c \in Conns |-> InitProc]
    /\ loop = Idle
    /\ now = 0
    /\ faults = MaxFaults + 1

DialogueSpec == DialogueInit /\ [][Next]_vars

\* ------------------------------------------- the formatting of durations
\* The processor of an ended session of any length up to MaxSeconds, about to
\* build the prompt of generate_summary from the record it has read.
FormatIds == {"s1"}
EndedSession(s, seconds) ==
    [session_id |-> s, user_id |-> UserId(s), start_time |-> 0,
     end_time |-> Some(seconds * TicksPerSecond), duration_seconds |-> Some(seconds),
     summary |-> None, status |-> "completed"]

FormatInit ==
    /\ conns = {"c1"}
    /\ \E s \in FormatIds, seconds \in 0..MaxSeconds, text \in {<<"hi">>} :
        /\ sessions = [x \in SessionIds |->
                          IF x = s THEN Some(EndedSession(s, seconds)) ELSE None]
        /\ events = [x \in SessionIds |->
                        IF x = s
                        THEN <<[event_type |-> "user_message", timestamp |-> 0, data |-> text]>>
                        ELSE <<>>]
        /\ proc = [c \in Conns |->
                      IF c = "c1"
                      THEN [InitProc EXCEPT
                              !.pc = "generate_summary", !.session_id = s,
                              !.session = Some(EndedSession(s, seconds)),
                              !.conversation =
                                  <<[role |-> "user", content |-> text, timestamp |-> 0]>>]
                      ELSE InitProc]
        /\ relay = [c \in Conns |->
                       IF c = "c1"
                       THEN [InitRelay EXCEPT !.pc = "closed", !.session_id = s,
                                              !.user_id = UserId(s)]
                       ELSE InitRelay]
        /\ now = seconds * TicksPerSecond
    /\ loop = ProcTask("c1")
    /\ faults = 0

FormatNext == \E c \in conns : GenerateSummary(c)

FormatSpec == FormatInit /\ [][FormatNext]_vars

\* Fairness: once the receive loop has ended, the finally block and the
\* detached processor are run whenever they can be, and the store and provider
\* calls they make return.  Nothing is assumed of the client or of the loop.
\* The liveness claims are about one session end to end, so they are checked
\* in the run configuration with one connection.
Teardown(c) == SendError(c) \/ EndSession(c) \/ LogSessionEnd(c) \/ CreateTask(c)

FairConns == {"c1"}
FairInit == Init /\ conns = FairConns
FairSpec ==
    /\ FairInit /\ [][Next]_vars
    /\ \A c \in FairConns : WF_vars(Teardown(c)) /\ WF_vars(ProcStep(c))

\* ======================================================================
\* Properties
\* ======================================================================
Status(s) ==
    IF s \notin SessionIds \/ sessions[s] = None THEN "absent" ELSE sessions[s][1].status
Rank(status) ==
    CASE status = "active" -> 1 [] status = "completed" -> 2
      [] status = "summarized" -> 3 [] OTHER -> 0

HasCall(calls, op, result) == \E i \in 1..Len(calls) : calls[i] = Call(op, result)
Called(calls, op) == \E i \in 1..Len(calls) : calls[i].op = op
CountFrames(frames, type) == Cardinality({i \in 1..Len(frames) : frames[i].type = type})
CountEvents(s, event_type) ==
    IF s \in SessionIds THEN Count(events[s], event_type) ELSE 0

\* the handler has returned ("closed") or an exception has left it ("failed")
Terminal(c) == relay[c].pc \in {"closed", "failed"}
Launched(c) == proc[c].pc # "none"
\* the receive loop was entered (the try block of line 127)
EnteredLoop(c) == HasCall(relay[c].calls, "send_json:session_start", "ok")
CleanDisconnect(c) == HasCall(relay[c].calls, "receive_text:disconnect", "raised")

\* ---------------------------------------------------------------- C1
\* C1: the stored status of a session only moves forward, one step at a time,
\* along active, completed, summarized: a new record starts active, and a
\* record never goes back nor skips a status.
C1_StatusMonotone ==
    [][\A s \in SessionIds :
          /\ (sessions[s] = None /\ sessions'[s] # None) => Status(s)' = "active"
          /\ (sessions[s] # None /\ sessions'[s] # None) =>
                /\ Rank(Status(s)') >= Rank(Status(s))
                /\ Rank(Status(s)') <= Rank(Status(s)) + 1]_vars

\* C1 witness: a summarized session whose id a second connection tried to reuse
C1_Witness ==
    /\ Status("s1") = "summarized"
    /\ relay["c2"].session_id = "s1"
    /\ HasCall(relay["c2"].calls, "create_session", "raised")

\* ---------------------------------------------------------------- C2
\* C2: when create_session or end_session fails in a connection, the relay has
\* sent an error frame and, by the time the handler is over, has run the rest
\* of the teardown: session_end was logged and the processor was launched.
C2_CriticalPathFailure ==
    \A c \in Conns :
        (/\ Terminal(c)
         /\ \/ HasCall(relay[c].calls, "create_session", "raised")
            \/ HasCall(relay[c].calls, "end_session", "raised"))
        => /\ CountFrames(relay[c].frames, "error") >= 1
           /\ Called(relay[c].calls, "log_event:session_end")
           /\ Launched(c)

\* ---------------------------------------------------------------- C3
\* C3: however the receive loop ends, once the handler is over end_session was
\* called, session_end was logged and the processor was launched; after a clean
\* disconnect no error frame was sent.
C3_CleanupAlwaysRuns ==
    \A c \in Conns :
        (Terminal(c) /\ EnteredLoop(c))
        => /\ Called(relay[c].calls, "end_session")
           /\ Called(relay[c].calls, "log_event:session_end")
           /\ Launched(c)
           /\ CleanDisconnect(c) => CountFrames(relay[c].frames, "error") = 0

\* ---------------------------------------------------------------- C4
\* C4: when the provider or the transport fails while a response is streamed,
\* once the handler is over the client was sent exactly one error frame, the
\* session is marked completed (or further) and the processor was launched.
MidStreamFault(c) ==
    \/ HasCall(relay[c].calls, "stream:error", "raised")
    \/ HasCall(relay[c].calls, "send_json:token", "raised")

C4_MidStreamFault ==
    \A c \in Conns :
        (Terminal(c) /\ MidStreamFault(c))
        => /\ CountFrames(relay[c].frames, "error") = 1
           /\ Status(relay[c].session_id) \in {"completed", "summarized"}
           /\ Launched(c)

\* ---------------------------------------------------------------- C5
TurnFrames(c) == SubSeq(relay[c].frames, relay[c].turn_frames + 1, Len(relay[c].frames))
TurnCalls(c) == SubSeq(relay[c].calls, relay[c].turn_calls + 1, Len(relay[c].calls))
StreamExhausted(c) == HasCall(TurnCalls(c), "stream:exhausted", "ok")
NoTokenAfterComplete(tf) ==
    \A i, j \in 1..Len(tf) :
        (i < j /\ tf[i].type = "response_complete") => tf[j].type # "token"

\* C5 (as claimed): in the turn of a handled user_message, once the stream is
\* exhausted and the send that follows is over, the turn's frames hold exactly
\* one response_complete; no token follows it; a turn whose stream was not
\* exhausted has none.
C5_ResponseFraming ==
    \A c \in Conns :
        relay[c].turns > 0 =>
            LET tf == TurnFrames(c) IN
            /\ (StreamExhausted(c) /\ relay[c].pc # "send_response_complete")
                  => CountFrames(tf, "response_complete") = 1
            /\ NoTokenAfterComplete(tf)
            /\ ~StreamExhausted(c) => CountFrames(tf, "response_complete") = 0

\* C5 (amended): as above, with exactly one response_complete when its send
\* succeeds and none when that send fails; the token frames of the turn are
\* the tokens of the stream, in order.
C5_ResponseFramingAmended ==
    \A c \in Conns :
        relay[c].turns > 0 =>
            LET tf == TurnFrames(c)
                tokens == SelectSeq(tf, LAMBDA f : f.type = "token")
            IN
            /\ HasCall(TurnCalls(c), "send_json:response_complete", "ok")
                  => /\ StreamExhausted(c)
                     /\ CountFrames(tf, "response_complete") = 1
                     /\ [i \in 1..Len(tokens) |-> tokens[i].content[1]]
                            = relay[c].full_response
            /\ HasCall(TurnCalls(c), "send_json:response_complete", "raised")
                  => CountFrames(tf, "response_complete") = 0
            /\ CountFrames(tf, "response_complete") <= 1
            /\ NoTokenAfterComplete(tf)
            /\ ~StreamExhausted(c) => CountFrames(tf, "response_complete") = 0

\* C5 witness: a turn of two tokens closed by its response_complete
C5_Witness ==
    \E c \in Conns :
        /\ StreamExhausted(c)
        /\ [i \in 1..Len(TurnFrames(c)) |-> TurnFrames(c)[i].type]
              = <<"token", "token", "response_complete">>

\* --------------------------------------------------------------- C10
CallsOf(calls, op, result) == {i \in DOMAIN calls : calls[i] = Call(op, result)}
EndWrites(s) ==
    Cardinality(UNION {{<<c, i>> : i \in CallsOf(relay[c].calls, "end_session", "ok")} :
                          c \in {x \in Conns : relay[x].session_id = s}})
SummaryWrites(s) ==
    Cardinality(UNION {{<<c, i>> : i \in CallsOf(proc[c].calls, "update_session_summary", "ok")} :
                          c \in {x \in Conns : proc[x].session_id = s}})

SetOnceState(s) ==
    LET r == sessions[s][1] IN
    /\ r.status = "active" =>
          /\ r.end_time = None /\ r.duration_seconds = None /\ r.summary = None
          /\ EndWrites(s) = 0 /\ SummaryWrites(s) = 0
    /\ r.status = "completed" =>
          /\ r.end_time # None /\ r.duration_seconds # None /\ r.summary = None
          /\ EndWrites(s) = 1 /\ SummaryWrites(s) = 0
    /\ r.status = "summarized" =>
          /\ r.end_time # None /\ r.duration_seconds # None /\ r.summary # None
          /\ EndWrites(s) = 1 /\ SummaryWrites(s) = 1

SetOnceStep(s) ==
    LET r == sessions[s][1]
        q == sessions'[s][1]
    IN
    /\ (q.end_time # r.end_time \/ q.duration_seconds # r.duration_seconds
          \/ EndWrites(s)' # EndWrites(s))
          => (r.status = "active" /\ q.status = "completed")
    /\ (q.summary # r.summary \/ SummaryWrites(s)' # SummaryWrites(s))
          => (r.status = "completed" /\ q.status = "summarized")

\* C10: end_time and duration_seconds are absent while the session is active
\* and are written once, by the step from active to completed; summary is
\* absent until it is written once, by the step from completed to summarized;
\* no later step writes any of them again.
C10_SetExactlyOnce ==
    [][\A s \in SessionIds :
          /\ sessions[s] # None => SetOnceState(s)
          /\ sessions'[s] # None => SetOnceState(s)'
          /\ (sessions[s] # None /\ sessions'[s] # None) => SetOnceStep(s)]_vars

\* C10 witness: a summarized session, its three fields present
C10_Witness ==
    \E s \in SessionIds :
        /\ Status(s) = "summarized"
        /\ sessions[s][1].summary = Some(ProviderSummary)
        /\ sessions[s][1].end_time # None
        /\ sessions[s][1].duration_seconds # None

\* ---------------------------------------------------------------- C8
LogPcs == {"log_session_start", "log_user_message", "log_assistant_response",
           "log_session_end"}

\* where the relay goes after a log_event call that returns
AfterLog(r) ==
    CASE r.pc = "log_session_start" -> "send_session_start"
      [] r.pc = "log_user_message" ->
            IF r.user_text = NonString THEN "except"
            ELSE IF MentionsWeather(r.user_text) THEN "send_function_result"
            ELSE "create_stream"
      [] r.pc = "log_assistant_response" -> "receive"
      [] r.pc = "log_session_end" -> "create_task"

BufferAfterLog(r) ==
    CASE r.pc = "log_user_message" ->
            Append(r.conversation_history, [role |-> "user", content |-> r.user_text])
      [] r.pc = "log_assistant_response" ->
            Append(r.conversation_history,
                   [role |-> "assistant", content |-> r.full_response])
      [] OTHER -> r.conversation_history

LastResult(calls) == calls[Len(calls)].result

\* C8: a log_event call never raises: whether its insert succeeds or fails, the
\* caller goes on to the same next step with the same frames and buffer; a
\* failed insert stores nothing and comes back as the empty result.
C8_LoggingNeverThrows ==
    [][\A c \in Conns :
          /\ (relay[c].pc \in LogPcs /\ relay'[c] # relay[c]) =>
                /\ relay'[c].pc = AfterLog(relay[c])
                /\ relay'[c].conversation_history = BufferAfterLog(relay[c])
                /\ relay'[c].frames = relay[c].frames
                /\ relay'[c].raised = relay[c].raised
                /\ LastResult(relay'[c].calls) \in {"ok", "swallowed"}
                /\ (LastResult(relay'[c].calls) = "swallowed") <=> (events' = events)
          /\ (proc[c].pc \in {"log_complete", "log_error"} /\ proc'[c] # proc[c]) =>
                /\ proc'[c].pc = "done"
                /\ LastResult(proc'[c].calls) \in {"ok", "swallowed"}
                /\ (LastResult(proc'[c].calls) = "swallowed") <=> (events' = events)]_vars

\* C8 witness: the insert of a user_message failed and the turn was completed
C8_Witness ==
    \E c \in Conns :
        /\ HasCall(relay[c].calls, "log_event:user_message", "swallowed")
        /\ CountFrames(relay[c].frames, "response_complete") = 1
        /\ relay[c].pc = "receive"

\* ---------------------------------------------------------------- C9
ProcFailed(c) ==
    \E i \in DOMAIN proc[c].calls :
        /\ proc[c].calls[i].result # "ok"
        /\ proc[c].calls[i].op # "log_event:post_processing_error"
UpdateFailed(c) ==
    \E i \in DOMAIN proc[c].calls :
        /\ proc[c].calls[i].op = "update_session_summary"
        /\ proc[c].calls[i].result # "ok"
ErrorEvents(c) == Cardinality(CallsOf(proc[c].calls, "log_event:post_processing_error", "ok"))

\* C9 (as claimed): a processor that has ended after any of its store or
\* provider operations failed has logged a post_processing_error event (the
\* call was made, whether or not its insert succeeded).
C9_FailureRecorded ==
    \A c \in Conns :
        (proc[c].pc = "done" /\ ProcFailed(c))
        => Called(proc[c].calls, "log_event:post_processing_error")

\* C9 (amended): the processor logs post_processing_error exactly when
\* update_session_summary failed, and then does not log post_processing_complete;
\* the failures of the other operations are absorbed where they occur and no
\* error event is written for them.
C9_FailureRecordedAmended ==
    \A c \in Conns :
        /\ proc[c].pc = "done" =>
              (Called(proc[c].calls, "log_event:post_processing_error") <=> UpdateFailed(c))
        /\ Called(proc[c].calls, "log_event:post_processing_error") =>
              /\ UpdateFailed(c)
              /\ ~Called(proc[c].calls, "log_event:post_processing_complete")
        /\ Launched(c) =>
              CountEvents(proc[c].session_id, "post_processing_error") = ErrorEvents(c)

\* C9 witness: update_session_summary failed and the error event is in the log
C9_Witness ==
    \E c \in Conns :
        /\ proc[c].pc = "done"
        /\ HasCall(proc[c].calls, "update_session_summary", "raised")
        /\ CountEvents(proc[c].session_id, "post_processing_error") = 1

\* ---------------------------------------------------------------- C6
Settled(c) == Terminal(c) /\ proc[c].pc \in {"none", "done"}
ConversationEvents(s) ==
    CountEvents(s, "user_message") + CountEvents(s, "assistant_response")
Summary(s) ==
    IF s \notin SessionIds \/ sessions[s] = None THEN None ELSE sessions[s][1].summary
Summarized(c) ==
    /\ Status(relay[c].session_id) = "summarized"
    /\ Summary(relay[c].session_id) \notin {None, Some(Placeholder)}

\* end_session raised in the finally block: the rest of the block is skipped
TeardownCut(c) == HasCall(relay[c].calls, "end_session", "raised")
NeverProcessed(c) ==
    /\ Status(relay[c].session_id) = "active"
    /\ ~Called(relay[c].calls, "create_task")
    /\ proc[c].pc = "none"

\* the store operations on the way from the disconnect to the summary
Unhindered(c) ==
    /\ ~HasCall(relay[c].calls, "end_session", "raised")
    /\ ~HasCall(proc[c].calls, "get_session", "swallowed")
    /\ ~HasCall(proc[c].calls, "get_conversation_history", "swallowed")
    /\ ~UpdateFailed(c)

EmptySession(c) == CleanDisconnect(c) /\ relay[c].turns = 0
PlaceholderOnly(c) ==
    /\ ~Called(proc[c].calls, "anthropic_client.messages.create")
    /\ proc[c].summary \in {None, Some(Placeholder)}
    /\ Summary(relay[c].session_id) \in {None, Some(Placeholder)}

Streaming(c) == relay[c].pc \in {"next_chunk", "send_token"}
InTurn(c) ==
    relay[c].pc \in {"log_user_message", "send_function_result", "create_stream",
                     "next_chunk", "send_token", "send_response_complete",
                     "log_assistant_response"}
CountCalls(calls, op, result) == Cardinality(CallsOf(calls, op, result))
\* provider streams created, less those read to the end, failed or abandoned
OpenStreams(c) ==
    CountCalls(relay[c].calls, "create_stream", "ok")
    - CountCalls(relay[c].calls, "stream:exhausted", "ok")
    - CountCalls(relay[c].calls, "stream:error", "raised")
    - CountCalls(relay[c].calls, "send_json:token", "raised")
ReceiveOps ==
    {"receive_text:user_message", "receive_text:ignored", "receive_text:malformed",
     "receive_text:disconnect", "receive_text:error"}
Received(c) ==
    /\ Len(relay'[c].calls) = Len(relay[c].calls) + 1
    /\ relay'[c].calls[Len(relay'[c].calls)].op \in ReceiveOps

\* C12: a connection has at most one provider stream open, and it is open
\* exactly while the handler reads it or forwards a token; the socket is read
\* only between turns, never from the receipt of a user_message to the end of
\* its turn.
C12_NoConcurrentGeneration ==
    [][\A c \in Conns :
          /\ Received(c) => (relay[c].pc = "receive" /\ ~InTurn(c) /\ OpenStreams(c) = 0)
          /\ OpenStreams(c)' \in {0, 1}
          /\ (OpenStreams(c)' = 1) <=> Streaming(c)']_vars

\* C12 witness: a turn was streamed to its end and the socket was read again
C12_Witness ==
    \E c \in Conns :
        /\ HasCall(relay[c].calls, "log_event:assistant_response", "ok")
        /\ relay[c].calls[Len(relay[c].calls)].op \in ReceiveOps

\* --------------------------------------------------------------- C13
\* C13 (as claimed): while a handler waits for the next chunk of its provider
\* stream it is suspended, so a handler of another session that waits for an
\* inbound message can be run.
C13_SessionsRunConcurrently ==
    \A c, d \in Conns :
        (c # d /\ relay[c].pc = "next_chunk" /\ relay[d].pc = "receive")
        => Runnable(RelayTask(d))

\* --------------------------------------------------------------- C14
Ignored(c) ==
    /\ Len(relay'[c].calls) = Len(relay[c].calls) + 1
    /\ relay'[c].calls[Len(relay'[c].calls)].op = "receive_text:ignored"

\* C14: receiving a message whose type is present and is not user_message
\* changes nothing but the record that it was received: buffer, frames, event
\* log and session records stay as they are, no provider is invoked, no error
\* is raised, and the handler goes on waiting for the next message.
C14_UnrecognizedIsNoOp ==
    [][\A c \in Conns :
          Ignored(c) =>
            /\ relay[c].pc = "receive" /\ relay'[c].pc = "receive"
            /\ relay'[c] = [relay[c] EXCEPT
                              !.calls = Append(@, Call("receive_text:ignored", "ok"))]
            /\ \A d \in Conns \ {c} : relay'[d] = relay[d]
            /\ loop' = Idle
            /\ UNCHANGED <<sessions, events, proc, faults>>]_vars

\* C14 witness: a message of another type was received after a completed turn
\* and the connection was then closed by the client, without an error frame
C14_Witness ==
    \E c \in Conns :
        /\ HasCall(relay[c].calls, "receive_text:ignored", "ok")
        /\ HasCall(relay[c].calls, "log_event:assistant_response", "ok")
        /\ relay[c].pc = "closed"
        /\ CountFrames(relay[c].frames, "error") = 0

\* --------------------------------------------------------------- C15
ProviderFailed(c) ==
    \E i \in DOMAIN proc[c].calls :
        /\ proc[c].calls[i].op = "anthropic_client.messages.create"
        /\ proc[c].calls[i].result # "ok"

\* C15 (as claimed): once the processor has ended after a failed call to the
\* summarization provider, the error text is the persisted summary, the status
\* is summarized, and post_processing_complete, not post_processing_error, was
\* logged.
C15_SummarizationDegrades ==
    \A c \in Conns :
        (proc[c].pc = "done" /\ ProviderFailed(c))
        => /\ Status(proc[c].session_id) = "summarized"
           /\ Summary(proc[c].session_id) = Some(ErrorSummary)
           /\ Called(proc[c].calls, "log_event:post_processing_complete")
           /\ ~Called(proc[c].calls, "log_event:post_processing_error")

\* C15 (amended): a failed call to the summarization provider is not
\* propagated: the processor goes on with the error text as the summary and
\* passes it to update_session_summary.  When that update succeeds the error
\* text is persisted, the status is summarized and the processor ends by
\* logging post_processing_complete (best effort), not post_processing_error;
\* when the update fails the session stays completed and
\* post_processing_error is logged instead.
C15_SummarizationDegradesAmended ==
    \A c \in Conns :
        ProviderFailed(c) =>
          /\ proc[c].pc \in {"update_session_summary", "get_session_statistics",
                             "log_complete", "log_error", "done"}
          /\ proc[c].summary = Some(ErrorSummary)
          /\ Called(proc[c].calls, "log_event:post_processing_error") => UpdateFailed(c)
          /\ (proc[c].pc = "done" /\ ~UpdateFailed(c)) =>
                /\ Status(proc[c].session_id) = "summarized"
                /\ Summary(proc[c].session_id) = Some(ErrorSummary)
                /\ Called(proc[c].calls, "log_event:post_processing_complete")
          /\ (proc[c].pc = "done" /\ UpdateFailed(c)) =>
                /\ Status(proc[c].session_id) = "completed"
                /\ Summary(proc[c].session_id) = None
                /\ Called(proc[c].calls, "log_event:post_processing_error")

\* C15 witness: the provider failed and the error text was persisted
C15_Witness ==
    \E c \in Conns :
        /\ proc[c].pc = "done" /\ ProviderFailed(c)
        /\ Status(proc[c].session_id) = "summarized"
        /\ Summary(proc[c].session_id) = Some(ErrorSummary)
        /\ CountEvents(proc[c].session_id, "post_processing_complete") = 1

\* --------------------------------------------------------------- C16
\* C16: when get_session returns no record, the processor ends in that step:
\* it has made no other call (no update_session_summary, no provider, no
\* log_event) and the store and the handlers are as they were.
C16_AbsentSessionAborts ==
    [][\A c \in Conns :
          /\ (proc[c].pc = "get_session" /\ proc'[c] # proc[c] /\ proc'[c].session = None)
                => /\ proc'[c].pc = "done"
                   /\ UNCHANGED <<sessions, events, relay>>
          /\ (proc'[c].pc = "done" /\ proc'[c].session = None)
                => /\ Len(proc'[c].calls) = 1
                   /\ proc'[c].calls[1].op = "get_session"
                   /\ proc'[c].summary = None]_vars

\* C16 witness: a processor that found no record and has ended
C16_Witness ==
    \E c \in Conns :
        /\ proc[c].pc = "done" /\ proc[c].session = None
        /\ Called(proc[c].calls, "get_session")
        /\ CountEvents(proc[c].session_id, "post_processing_complete") = 0
        /\ CountEvents(proc[c].session_id, "post_processing_error") = 0

\* --------------------------------------------------------------- C17
IsConversation(e) == e.event_type \in {"user_message", "assistant_response"}
\* the message an event stands for
MessageOf(e) ==
    [role |-> IF e.event_type = "user_message" THEN "user" ELSE "assistant",
     content |-> e.data, timestamp |-> e.timestamp]
Occurrences(seq, x) == Cardinality({i \in DOMAIN seq : seq[i] = x})

\* C17: the conversation read back has one message per stored user_message or
\* assistant_response event, each with the role of its type and the content and
\* timestamp of its event, in ascending order of timestamp; messages stored
\* with distinct ascending timestamps come back in the order they were stored;
\* events of the other types yield no message.
C17_ConversationRoundTrip ==
    \A s \in LedgerIds :
        LET conv == get_conversation_history(s, TRUE)
            stored == SelectSeq(events[s], IsConversation)
            ascending(seq) ==
                \A i, j \in DOMAIN seq : i < j => seq[i].timestamp <= seq[j].timestamp
            distinct(seq) ==
                \A i, j \in DOMAIN seq : i # j => seq[i].timestamp # seq[j].timestamp
        IN  /\ Len(conv) = Len(stored)
            /\ \A i \in DOMAIN conv : conv[i].role \in {"user", "assistant"}
            /\ \A i \in DOMAIN stored :
                  Occurrences(conv, MessageOf(stored[i]))
                    = Cardinality({j \in DOMAIN stored : MessageOf(stored[j]) = MessageOf(stored[i])})
            /\ ascending(conv)
            /\ distinct(stored) /\ ascending(stored) =>
                  \A i \in DOMAIN stored : conv[i] = MessageOf(stored[i])

\* C17 witness: both kinds of message and an event of another type, stored
\* with timestamps that are not ascending
C17_Witness ==
    \E s \in LedgerIds :
        /\ Len(events[s]) = 3
        /\ events[s][1].event_type = "assistant_response" /\ events[s][1].timestamp = 2
        /\ events[s][2].event_type = "session_start"
        /\ events[s][3].event_type = "user_message" /\ events[s][3].timestamp = 1

\* --------------------------------------------------------------- C18
RECURSIVE SumOver(_, _)
SumOver(f, keys) ==
    IF keys = {} THEN 0
    ELSE LET k == CHOOSE x \in keys : TRUE IN f[k] + SumOver(f, keys \ {k})
OfType(rows, event_type) == SelectSeq(rows, LAMBDA e : e.event_type = event_type)

\* C18: for a log with u user_message, a assistant_response, f function_call
\* and t other events, the statistics are total_events = u+a+f+t,
\* user_messages = u, assistant_responses = a, function_calls = f, and
\* event_types has one entry per type that occurs, the entries summing to
\* total_events.
C18_StatisticsAdditivity ==
    \A s \in LedgerIds :
        LET stats == get_session_statistics(s, TRUE)
            u == Len(OfType(events[s], "user_message"))
            a == Len(OfType(events[s], "assistant_response"))
            f == Len(OfType(events[s], "function_call"))
            other == Len(SelectSeq(events[s], LAMBDA e :
                        e.event_type \notin {"user_message", "assistant_response",
                                             "function_call"}))
        IN  /\ stats.total_events = u + a + f + other
            /\ stats.user_messages = u
            /\ stats.assistant_responses = a
            /\ stats.function_calls = f
            /\ DOMAIN stats.event_types = {events[s][i].event_type : i \in DOMAIN events[s]}
            /\ \A ty \in DOMAIN stats.event_types :
                  stats.event_types[ty] = Len(OfType(events[s], ty))
            /\ SumOver(stats.event_types, DOMAIN stats.event_types) = stats.total_events

\* C18 witness: a log with a function call, another event and a user message
C18_Witness ==
    \E s \in LedgerIds :
        /\ Len(OfType(events[s], "function_call")) = 1
        /\ Len(OfType(events[s], "session_start")) = 1
        /\ Len(OfType(events[s], "user_message")) = 1

\* --------------------------------------------------------------- C19
OrphanFree(rows, records) == \A s \in SessionIds : rows[s] # <<>> => records[s] # None

\* C19: no event is ever stored without its session record, before, during
\* and after delete_session; delete_session returns True exactly when both
\* store deletes succeed, and then neither the record nor any event of the
\* session remains; when the first delete fails nothing is removed, when the
\* second fails the record remains.
C19_CascadingDelete ==
    /\ OrphanFree(events, sessions)
    /\ loop # Idle => \E s \in LedgerIds : loop = Deleting(s) /\ events[s] = <<>>
    /\ \A s \in LedgerIds : \A ok1, ok2 \in BOOLEAN :
          LET d == delete_session(s, ok1, ok2) IN
          /\ OrphanFree(d.mid.events, d.mid.sessions)
          /\ OrphanFree(d.events, d.sessions)
          /\ d.result <=> (ok1 /\ ok2)
          /\ d.result => (d.sessions[s] = None /\ d.events[s] = <<>>)
          /\ ~ok1 => (d.events = events /\ d.sessions = sessions)
          /\ ~d.result => d.sessions = sessions

\* C19 witness: between the two deletes of a session that had events
C19_Witness ==
    \E s \in LedgerIds :
        /\ loop = Deleting(s)
        /\ sessions[s] # None /\ sessions[s][1].status = "completed"
        /\ events[s] = <<>>

\* --------------------------------------------------------------- C20
Ended(s) == sessions[s] # None /\ sessions[s][1].end_time # None
Elapsed(s) == sessions[s][1].end_time[1] - sessions[s][1].start_time

\* C20 (as claimed): the stored duration_seconds is the floor of the seconds
\* from start_time to the time of end_session, whatever the two times are; an
\* end_session on an id without record raises and writes nothing.
C20_DurationCorrectness ==
    \A s \in LedgerIds :
        /\ Ended(s) =>
              LET d == sessions[s][1].duration_seconds[1] IN
              /\ d * TicksPerSecond <= Elapsed(s)
              /\ Elapsed(s) < (d + 1) * TicksPerSecond
        /\ sessions[s] = None =>
              \A ok \in BOOLEAN :
                  end_session(s, ok).raised /\ end_session(s, ok).sessions = sessions

\* --------------------------------------------------------------- C21
\* the text generate_summary has put in its prompt for the duration
DurationStr(c) == proc[c].duration_str[1]
Formatted(c) == proc[c].duration_str # None
SecondsOf(c) == proc[c].session[1].duration_seconds[1]

\* C21: for every duration of s >= 0 seconds the formatted text is
\* "s seconds" when s < 60, "M minutes, S seconds" with M = s div 60 and
\* S = s mod 60 when 60 <= s < 3600, and "H hours, M minutes" with
\* H = s div 3600 and M = (s mod 3600) div 60 otherwise; 45, 125 and 3725 give
\* "45 seconds", "2 minutes, 5 seconds" and "1 hours, 2 minutes".
C21_DurationFormatting ==
    \A c \in Conns :
        (Formatted(c) /\ SecondsOf(c) >= 0) =>
            LET s == SecondsOf(c)
                out == DurationStr(c)
            IN  /\ s < 60 => out = Digits(s) \o <<" seconds">>
                /\ (60 <= s /\ s < 3600) =>
                      out = Digits(s \div 60) \o <<" minutes, ">>
                            \o Digits(s % 60) \o <<" seconds">>
                /\ s >= 3600 =>
                      out = Digits(s \div 3600) \o <<" hours, ">>
                            \o Digits((s % 3600) \div 60) \o <<" minutes">>
                /\ s = 45 => out = <<"4", "5", " seconds">>
                /\ s = 125 => out = <<"2", " minutes, ", "5", " seconds">>
                /\ s = 3725 => out = <<"1", " hours, ", "2", " minutes">>

\* C21 witness: a session of 3725 seconds has been formatted
C21_Witness ==
    \E c \in Conns :
        /\ Formatted(c) /\ SecondsOf(c) = 3725
        /\ DurationStr(c) = <<"1", " hours, ", "2", " minutes">>

\* --------------------------------------------------------------- C22
UserEntry(text) == [role |-> "user", content |-> text]
SystemEntry == [role |-> "system", content |-> <<"Weather data:">> \o execute_tool("get_weather")]
AssistantEntry(text) == [role |-> "assistant", content |-> text]

\* the buffer as the log of the session accounts for it: each user message,
\* followed by the tool entry when its text triggers the tool, and each response
RECURSIVE BufferOf(_)
BufferOf(rows) ==
    IF rows = <<>> THEN <<>>
    ELSE LET e == Head(rows)
             rest == BufferOf(Tail(rows))
         IN  IF e.event_type = "user_message"
             THEN <<UserEntry(e.data)>>
                  \o (IF MentionsWeather(e.data) THEN <<SystemEntry>> ELSE <<>>) \o rest
             ELSE IF e.event_type = "assistant_response"
             THEN <<AssistantEntry(e.data)>> \o rest
             ELSE rest

\* no log insert of the connection has failed
NoLogLost(c) == \A i \in DOMAIN relay[c].calls : relay[c].calls[i].result # "swallowed"
\* the step appends a call of op to the connection's history
Calls(c, op) ==
    /\ Len(relay'[c].calls) = Len(relay[c].calls) + 1
    /\ relay'[c].calls[Len(relay'[c].calls)].op = op
\* the step sends a frame of the type to the client
Sends(c, type) ==
    /\ Len(relay'[c].frames) = Len(relay[c].frames) + 1
    /\ relay'[c].frames[Len(relay'[c].frames)].type = type

\* C22: whenever the completion provider is invoked it is given the whole
\* buffer: in order, the user messages, tool entries and completed responses of
\* the connection so far (as the session log accounts for them when no insert
\* was lost), ending with the current user message, followed by its tool entry
\* when the text triggers the tool; and in a turn whose text triggers the tool no
\* token frame is sent before the function_result frame.
C22_ProviderContext ==
    [][\A c \in Conns :
          LET given == relay'[c].messages
              text == relay[c].user_text
              n == Len(given)
          IN
          /\ Calls(c, "create_stream") =>
                /\ NoLogLost(c) => given = BufferOf(events[relay[c].session_id])
                /\ IF MentionsWeather(text)
                   THEN /\ n >= 2
                        /\ given[n - 1] = UserEntry(text)
                        /\ given[n] = SystemEntry
                        /\ CountFrames(TurnFrames(c), "function_result") = 1
                   ELSE /\ n >= 1
                        /\ given[n] = UserEntry(text)
                        /\ CountFrames(TurnFrames(c), "function_result") = 0
                /\ Cardinality({i \in 1..n : given[i].role = "user"}) = relay[c].turns
                /\ Cardinality({i \in 1..n : given[i].role = "assistant"}) = relay[c].turns - 1
          /\ (Sends(c, "token") /\ MentionsWeather(text)) =>
                /\ CountFrames(TurnFrames(c), "function_result") = 1
                /\ TurnFrames(c)[1].type = "function_result"]_vars

\* C22 witness: the provider was invoked in a second turn, both turns having
\* triggered the tool: two user messages, two tool entries and one response
C22_Witness ==
    \E c \in Conns :
        /\ relay[c].turns = 2
        /\ relay[c].pc = "next_chunk"
        /\ Len(relay[c].messages) = 5
        /\ relay[c].messages[2] = SystemEntry
        /\ relay[c].messages[3].role = "assistant"
        /\ relay[c].messages[5] = SystemEntry

\* --------------------------------------------------------------- C23
Positions(rows, types) == {i \in DOMAIN rows : rows[i].event_type \in types}
TurnTypes == {"user_message", "assistant_response"}
OutcomeTypes == {"post_processing_complete", "post_processing_error"}

\* the order of the rows of one session, as far as they have been written
EventOrder(rows) ==
    /\ rows # <<>> => rows[1].event_type = "session_start"
    /\ Positions(rows, {"session_start"}) \subseteq {1}
    /\ \A i \in Positions(rows, {"assistant_response"}) :
          i > 1 /\ rows[i - 1].event_type = "user_message"
    /\ Cardinality(Positions(rows, {"session_end"})) <= 1
    /\ \A i \in Positions(rows, TurnTypes) : \A j \in Positions(rows, {"session_end"}) : i < j
    /\ Cardinality(Positions(rows, OutcomeTypes)) <= 1
    /\ \A i \in Positions(rows, OutcomeTypes) :
          \E j \in Positions(rows, {"session_end"}) : j < i

\* no log insert has failed, in any handler or processor
NoInsertFailed ==
    \A c \in Conns :
        /\ NoLogLost(c)
        /\ \A i \in DOMAIN proc[c].calls :
              proc[c].calls[i].op \in {"log_event:post_processing_complete",
                                       "log_event:post_processing_error"}
              => proc[c].calls[i].result = "ok"
\* the handler of the connection wrote session_start and is over
WroteAndOver(c) ==
    /\ Terminal(c)
    /\ HasCall(relay[c].calls, "log_event:session_start", "ok")

\* C23 (as claimed): when no log insert fails, the rows of a session are in the
\* order session_start, then per turn a user_message and at most one
\* assistant_response, then session_end, then at most one post-processing
\* outcome; and a session whose handler is over has exactly one session_end.
C23_EventOrder ==
    NoInsertFailed =>
        /\ \A s \in SessionIds : EventOrder(events[s])
        /\ \A c \in Conns :
              WroteAndOver(c) => CountEvents(relay[c].session_id, "session_end") = 1

\* The order alone, which every state satisfies.
EventOrderKept == NoInsertFailed => \A s \in SessionIds : EventOrder(events[s])

\* --------------------------------------------------------------- C24
\* the contents of the token frames among the frames, in order
TokensOf(frames) ==
    LET sent == SelectSeq(frames, LAMBDA f : f.type = "token")
    IN  [i \in 1..Len(sent) |-> sent[i].content[1]]
Responses(c) ==
    Cardinality({i \in DOMAIN relay[c].conversation_history :
                    relay[c].conversation_history[i].role = "assistant"})
\* the step inserts a row of the type for the session
Inserts(s, event_type) ==
    /\ Len(events'[s]) = Len(events[s]) + 1
    /\ events'[s][Len(events'[s])].event_type = event_type
\* the turn of the connection ended before its response_complete was sent
Interrupted(c) ==
    /\ relay[c].turns > 0
    /\ ~InTurn(c)
    /\ CountFrames(TurnFrames(c), "response_complete") = 0

\* C24: an assistant_response row is inserted only by a handler that has sent
\* the response_complete frame of the turn, as the last frame so far, and its
\* content is the concatenation of the token frames sent in that turn; after a
\* turn that was interrupted, the buffer and the log hold a response for each
\* earlier turn and none for the interrupted one.
C24_LoggedEqualsStreamed ==
    [][/\ \A s \in SessionIds :
             Inserts(s, "assistant_response") =>
                \E c \in Conns :
                    LET tf == TurnFrames(c) IN
                    /\ relay[c].session_id = s
                    /\ Calls(c, "log_event:assistant_response")
                    /\ tf # <<>> /\ tf[Len(tf)].type = "response_complete"
                    /\ events'[s][Len(events'[s])].data = TokensOf(tf)
       /\ \A c \in Conns :
             Interrupted(c)' =>
                /\ Responses(c)' = relay'[c].turns - 1
                /\ CountEvents(relay[c].session_id, "assistant_response")' <= relay'[c].turns - 1
                /\ Responses(c)' <= CountFrames(relay'[c].frames, "response_complete")]_vars

\* C24 witness: a first turn was answered and logged with its tokens; the
\* second was interrupted after a token had been forwarded
C24_Witness ==
    \E c \in Conns :
        /\ relay[c].turns = 2
        /\ Interrupted(c)
        /\ TokensOf(TurnFrames(c)) # <<>>
        /\ Responses(c) = 1
        /\ CountEvents(relay[c].session_id, "assistant_response") = 1
        /\ \E i \in DOMAIN events[relay[c].session_id] :
              /\ events[relay[c].session_id][i].event_type = "assistant_response"
              /\ Len(events[relay[c].session_id][i].data) = 2

\* --------------------------------------------------------------- C25
\* the calls of the run that log one of the two outcome events
OutcomeCalls(c) ==
    {i \in DOMAIN proc[c].calls :
        proc[c].calls[i].op \in {"log_event:post_processing_complete",
                                 "log_event:post_processing_error"}}
UpdatedBefore(c, i) ==
    \E j \in 1..(i - 1) : proc[c].calls[j] = Call("update_session_summary", "ok")

\* C25: a session with a post_processing_complete event is summarized and has
\* a summary, and the run that logged the event had updated the summary
\* before; a session with a post_processing_error event has no
\* post_processing_complete event; one run logs at most one of the two events.
C25_OutcomeConsistent ==
    /\ \A s \in SessionIds :
          /\ CountEvents(s, "post_processing_complete") > 0 =>
                /\ Status(s) = "summarized"
                /\ Summary(s) # None
          /\ CountEvents(s, "post_processing_error") > 0 =>
                CountEvents(s, "post_processing_complete") = 0
          /\ CountEvents(s, "post_processing_complete")
               + CountEvents(s, "post_processing_error") <= 1
    /\ \A c \in Conns :
          /\ Cardinality(OutcomeCalls(c)) <= 1
          /\ \A i \in OutcomeCalls(c) :
                proc[c].calls[i].op = "log_event:post_processing_complete"
                => UpdatedBefore(c, i)

\* C25 witness: one session was post-processed to the end, the other's summary
\* update failed and its run logged the error event
C25_Witness ==
    \E s, x \in SessionIds :
        /\ CountEvents(s, "post_processing_complete") = 1
        /\ Status(s) = "summarized"
        /\ CountEvents(x, "post_processing_error") = 1
        /\ Status(x) = "completed"

====
